---- MODULE Spec2Model ----
(***************************************************************************)
(* Model of the rice transient circuit simulator: the netlist, the matrix  *)
(* views, the element stamps and updates, and the Backward Euler solve.    *)
(*                                                                         *)
(* Numbers are exact rationals <<numerator, denominator>> in lowest terms  *)
(* with a positive denominator; the rounding of f64 is not modelled.       *)
(* The dense inverse of nalgebra is modelled by its mathematical contract: *)
(* it exists exactly when the determinant is non-zero.                     *)
(***************************************************************************)
EXTENDS Integers, Sequences, FiniteSets, TLC

\* ------------------------------------------------------------------------
\* Bounds of the model
\* ------------------------------------------------------------------------
MaxComponents == 2
MaxNode == 2
MaxSolves == 2
MaxDim == 2
MaxOps == 2
MaxSteps == 3

\* ------------------------------------------------------------------------
\* Exact rational arithmetic (stands for f64 arithmetic without rounding)
\* ------------------------------------------------------------------------
Abs(i) == IF i < 0 THEN -i ELSE i

RECURSIVE GCD(_, _)
GCD(m, n) == IF n = 0 THEN m ELSE GCD(n, m % n)

Norm(n, d) ==
    LET g == GCD(Abs(n), Abs(d))
        s == IF d < 0 THEN -1 ELSE 1
    IN  <<(s * n) \div g, (s * d) \div g>>

Rat(i) == <<i, 1>>
Zero == <<0, 1>>
One == <<1, 1>>
RAdd(x, y) == Norm(x[1] * y[2] + y[1] * x[2], x[2] * y[2])
RNeg(x) == <<-x[1], x[2]>>
RSub(x, y) == RAdd(x, RNeg(y))
RMul(x, y) == Norm(x[1] * y[1], x[2] * y[2])
RDiv(x, y) == Norm(x[1] * y[2], x[2] * y[1])

\* ------------------------------------------------------------------------
\* State
\* ------------------------------------------------------------------------
VARIABLES
    components,   \* Netlist.components, in insertion order
    a, b,         \* the system assembled by the last solve
    x,            \* the solution of the last solve
    outcome,      \* how the last solve ended
    before,       \* Netlist.components when the last solve was entered
    last_dt,      \* the dt of the last solve
    solves,       \* number of solve calls made
    ab_view,      \* an ABMatrixView an element stamps through
    ab_before,    \* A and b of that view before its last call
    op,           \* the last call made through that view
    x_view,       \* an XMatrixView an element reads through
    read,         \* the last get_variable call and what it returned
    built,        \* a circuit as it was constructed, before any solve
    elapsed,      \* the sum of the steps solved on that circuit
    pc,           \* where the solve call in progress stands
    passes,       \* the passes that call has completed, in order
    diode,        \* a Diode
    diode_read    \* the last readout taken from it

netlist_vars == <<components, a, b, x, outcome, before, last_dt, solves>>
view_vars == <<ab_view, ab_before, op>>
read_vars == <<x_view, read>>
circuit_vars == <<built, elapsed>>
step_vars == <<pc, passes>>
diode_vars == <<diode, diode_read>>
vars == <<netlist_vars, view_vars, read_vars, circuit_vars, step_vars, diode_vars>>


\* ------------------------------------------------------------------------
\* Elements (components/*.rs).  One record shape for the five kinds:
\*   param   : resistance, capacitance or inductance (Zero for the sources)
\*   voltage : Resistor/Inductor/CurrentSource computed, Capacitor state,
\*             VoltageSource static
\*   current : Capacitor/VoltageSource computed, Inductor state,
\*             CurrentSource static (unused by Resistor: derived on read)
\* ------------------------------------------------------------------------
Resistor(p, n, resistance) ==
    [kind |-> "Resistor", positive_node |-> p, negative_node |-> n,
     param |-> resistance, voltage |-> Zero, current |-> Zero]

Capacitor(p, n, capacitance, initial_voltage) ==
    [kind |-> "Capacitor", positive_node |-> p, negative_node |-> n,
     param |-> capacitance, voltage |-> initial_voltage, current |-> Zero]

Inductor(p, n, inductance, initial_current) ==
    [kind |-> "Inductor", positive_node |-> p, negative_node |-> n,
     param |-> inductance, voltage |-> Zero, current |-> initial_current]

VoltageSource(p, n, voltage) ==
    [kind |-> "VoltageSource", positive_node |-> p, negative_node |-> n,
     param |-> Zero, voltage |-> voltage, current |-> Zero]

CurrentSource(p, n, current) ==
    [kind |-> "CurrentSource", positive_node |-> p, negative_node |-> n,
     param |-> Zero, voltage |-> Zero, current |-> current]

\* Component::get_current: a resistor derives its current on every read.
get_current(c) ==
    IF c.kind = "Resistor" THEN RDiv(c.voltage, c.param) ELSE c.current

get_voltage(c) == c.voltage

Max2(i, j) == IF i >= j THEN i ELSE j

\* the positive terminal taken for the larger of the two
max_node_of_positive_terminal(c) == c.positive_node

\* Resistor::max_node and CurrentSource::max_node
max_node_of_terminals(c) == Max2(c.positive_node, c.negative_node)

\* Capacitor::max_node, Inductor::max_node and VoltageSource::max_node, which
\* Component::max_node calls: the larger terminal, as for the other kinds
max_node_of_other_kinds(c) == Max2(c.positive_node, c.negative_node)

\* Component::max_node
max_node(c) ==
    IF c.kind \in {"Resistor", "CurrentSource"}
    THEN max_node_of_terminals(c)
    ELSE max_node_of_other_kinds(c)

\* Netlist::get_num_nodes: components.iter().map(max_node).max().unwrap_or(0)
RECURSIVE IterMax(_, _)
IterMax(cs, k) ==
    IF k = 0 THEN 0 ELSE Max2(IterMax(cs, k - 1), max_node(cs[k]))

\* get_num_nodes taking the last component instead of the maximum
get_num_nodes_of_last(cs) ==
    IF cs = <<>> THEN 0 ELSE max_node(cs[Len(cs)])

get_num_nodes(cs) == IterMax(cs, Len(cs))

\* Stampable::num_variables
num_variables(c) == IF c.kind = "VoltageSource" THEN 1 ELSE 0

RECURSIVE SumVariables(_, _)
SumVariables(cs, k) ==
    IF k = 0 THEN 0 ELSE SumVariables(cs, k - 1) + num_variables(cs[k])

\* the auxiliary offset without the node count in front of it
variables_start_without_nodes(cs, k) == SumVariables(cs, k - 1)

\* The absolute offset of the auxiliaries of the k-th component (1-based k):
\* the node count plus the auxiliaries of the components added before it.
variables_start(cs, k) == get_num_nodes(cs) + SumVariables(cs, k - 1)

\* ------------------------------------------------------------------------
\* Index kinds and views (be_solver/matrix_view.rs)
\* ------------------------------------------------------------------------
None == -1          \* Option::None of an Option<usize>
NoValue == <<0, 0>> \* Option::None of an Option<f64>
NoPlace == <<None, None>> \* Option::None of an Option<&mut f64> into A

NodalEquation(idx) == [kind |-> "NodalEquation", idx |-> idx]
SpecificEquation(idx) == [kind |-> "SpecificEquation", idx |-> idx]
NodeVoltage(idx) == [kind |-> "NodeVoltage", idx |-> idx]
SpecificVariable(idx) == [kind |-> "SpecificVariable", idx |-> idx]

\* a nodal equation k addressed at row k instead of k - 1
eq_into_global_index_no_shift(eq, num_nodes, num_vars, vars_start) ==
    IF eq.kind = "NodalEquation"
    THEN IF eq.idx = 0 THEN None
         ELSE IF eq.idx > num_nodes THEN None
         ELSE eq.idx
    ELSE IF eq.idx >= num_vars THEN None
         ELSE vars_start + eq.idx

\* an auxiliary equation accepted whatever the element's auxiliary count
eq_into_global_index_any_auxiliary(eq, num_nodes, num_vars, vars_start) ==
    IF eq.kind = "NodalEquation"
    THEN IF eq.idx = 0 THEN None
         ELSE IF eq.idx > num_nodes THEN None
         ELSE eq.idx - 1
    ELSE vars_start + eq.idx

\* ViewEquationIndex::into_global_index
eq_into_global_index(eq, num_nodes, num_vars, vars_start) ==
    IF eq.kind = "NodalEquation"
    THEN IF eq.idx = 0 THEN None
         ELSE IF eq.idx > num_nodes THEN None
         ELSE eq.idx - 1
    ELSE IF eq.idx >= num_vars THEN None
         ELSE vars_start + eq.idx

\* a nodal voltage accepted whatever the node count
var_into_global_index_unbounded(var, num_nodes, num_vars, vars_start) ==
    IF var.kind = "NodeVoltage"
    THEN IF var.idx = 0 THEN None
         ELSE var.idx - 1
    ELSE IF var.idx >= num_vars THEN None
         ELSE vars_start + var.idx

\* ViewVariableIndex::into_global_index
var_into_global_index(var, num_nodes, num_vars, vars_start) ==
    IF var.kind = "NodeVoltage"
    THEN IF var.idx = 0 THEN None
         ELSE IF var.idx > num_nodes THEN None
         ELSE var.idx - 1
    ELSE IF var.idx >= num_vars THEN None
         ELSE vars_start + var.idx

\* DMatrix::zeros(dim, dim) and DMatrix::zeros(dim, 1)
ZeroA(dim) == [r \in 0..(dim - 1) |-> [c \in 0..(dim - 1) |-> Zero]]
ZeroB(dim) == [r \in 0..(dim - 1) |-> Zero]

\* ABMatrixView::new
ABMatrixView(ma, mb, num_nodes, num_vars, vars_start) ==
    [a |-> ma, b |-> mb, num_nodes |-> num_nodes,
     num_variables |-> num_vars, variables_start |-> vars_start]

\* ABMatrixView::get_coefficient_mut: the place a coefficient is written to,
\* or None (`?` on either index, then DMatrix::get_mut's bounds check).
get_coefficient_mut(view, eq, var) ==
    LET r == eq_into_global_index(eq, view.num_nodes, view.num_variables,
                                  view.variables_start)
        c == var_into_global_index(var, view.num_nodes, view.num_variables,
                                   view.variables_start)
    IN  IF r = None THEN NoPlace
        ELSE IF c = None THEN NoPlace
        ELSE IF r \notin DOMAIN view.a \/ c \notin DOMAIN view.a THEN NoPlace
        ELSE <<r, c>>

\* coefficient_add that assigns instead of accumulating
coefficient_add_overwrites(view, eq, var, value) ==
    IF get_coefficient_mut(view, eq, var) = NoPlace THEN view
    ELSE [view EXCEPT !.a[get_coefficient_mut(view, eq, var)[1]]
                         [get_coefficient_mut(view, eq, var)[2]] = value]

\* ABMatrixView::coefficient_add
coefficient_add(view, eq, var, value) ==
    LET at == get_coefficient_mut(view, eq, var)
    IN  IF at = NoPlace THEN view
        ELSE [view EXCEPT !.a[at[1]][at[2]] = RAdd(@, value)]

\* ABMatrixView::get_result_mut
get_result_mut(view, eq) ==
    LET r == eq_into_global_index(eq, view.num_nodes, view.num_variables,
                                  view.variables_start)
    IN  IF r = None THEN None
        ELSE IF r \notin DOMAIN view.b THEN None
        ELSE r

\* ABMatrixView::result_add
result_add(view, eq, value) ==
    LET at == get_result_mut(view, eq)
    IN  IF at = None THEN view
        ELSE [view EXCEPT !.b[at] = RAdd(@, value)]

\* XMatrixView::new
XMatrixView(mx, num_nodes, num_vars, vars_start) ==
    [x |-> mx, num_nodes |-> num_nodes,
     num_variables |-> num_vars, variables_start |-> vars_start]

\* get_variable without the arm for node 0
get_variable_no_ground_arm(view, var) ==
    LET i == var_into_global_index(var, view.num_nodes, view.num_variables,
                                   view.variables_start)
    IN  IF i = None THEN NoValue
        ELSE IF i \notin DOMAIN view.x THEN NoValue
        ELSE view.x[i]

\* XMatrixView::get_variable
get_variable(view, var) ==
    IF var.kind = "NodeVoltage" /\ var.idx = 0 THEN Zero
    ELSE LET i == var_into_global_index(var, view.num_nodes,
                                        view.num_variables,
                                        view.variables_start)
         IN  IF i = None THEN NoValue
             ELSE IF i \notin DOMAIN view.x THEN NoValue
             ELSE view.x[i]


\* ------------------------------------------------------------------------
\* Evaluation helper: Body applied to the value of val, val evaluated once
\* ------------------------------------------------------------------------
Let(val, Body(_)) == CHOOSE r \in {Body(v) : v \in {val}} : TRUE

\* ------------------------------------------------------------------------
\* Element stamps and updates (be_solver/stampable.rs).  A stamp is the
\* sequence of calls it makes on its view, in the order of the source.
\* ------------------------------------------------------------------------
CoefficientCall(eq, var, value) ==
    [kind |-> "coefficient_add", eq |-> eq, var |-> var, value |-> value]

ResultCall(eq, value) == [kind |-> "result_add", eq |-> eq, value |-> value]

\* a resistor stamp that takes the resistance itself for the conductance
stamp_resistor_by_resistance(c, dt) ==
    LET pe == NodalEquation(c.positive_node)
        ne == NodalEquation(c.negative_node)
        pv == NodeVoltage(c.positive_node)
        nv == NodeVoltage(c.negative_node)
        g == c.param
    IN  << CoefficientCall(pe, pv, g),
           CoefficientCall(pe, nv, RNeg(g)),
           CoefficientCall(ne, pv, RNeg(g)),
           CoefficientCall(ne, nv, g) >>

\* Resistor::stamp
stamp_resistor(c, dt) ==
    LET pe == NodalEquation(c.positive_node)
        ne == NodalEquation(c.negative_node)
        pv == NodeVoltage(c.positive_node)
        nv == NodeVoltage(c.negative_node)
        g == RDiv(One, c.param)
    IN  << CoefficientCall(pe, pv, g),
           CoefficientCall(pe, nv, RNeg(g)),
           CoefficientCall(ne, pv, RNeg(g)),
           CoefficientCall(ne, nv, g) >>

\* the capacitor stamp without its right-hand side, the term C*v_old/dt
stamp_capacitor_without_history(c, dt) ==
    LET pe == NodalEquation(c.positive_node)
        ne == NodalEquation(c.negative_node)
        pv == NodeVoltage(c.positive_node)
        nv == NodeVoltage(c.negative_node)
        cap == c.param
    IN  << CoefficientCall(pe, pv, RDiv(cap, dt)),
           CoefficientCall(pe, nv, RDiv(RNeg(cap), dt)),
           CoefficientCall(ne, pv, RDiv(RNeg(cap), dt)),
           CoefficientCall(ne, nv, RDiv(cap, dt)) >>

\* the capacitor stamp with C*dt in the place of C/dt
stamp_capacitor_times_dt(c, dt) ==
    LET pe == NodalEquation(c.positive_node)
        ne == NodalEquation(c.negative_node)
        pv == NodeVoltage(c.positive_node)
        nv == NodeVoltage(c.negative_node)
        cap == c.param
    IN  << CoefficientCall(pe, pv, RMul(cap, dt)),
           CoefficientCall(pe, nv, RMul(RNeg(cap), dt)),
           ResultCall(pe, RMul(RMul(cap, c.voltage), dt)),
           CoefficientCall(ne, pv, RMul(RNeg(cap), dt)),
           CoefficientCall(ne, nv, RMul(cap, dt)),
           ResultCall(ne, RMul(RMul(RNeg(cap), c.voltage), dt)) >>

\* Capacitor::stamp
stamp_capacitor(c, dt) ==
    LET pe == NodalEquation(c.positive_node)
        ne == NodalEquation(c.negative_node)
        pv == NodeVoltage(c.positive_node)
        nv == NodeVoltage(c.negative_node)
        cap == c.param
    IN  << CoefficientCall(pe, pv, RDiv(cap, dt)),
           CoefficientCall(pe, nv, RDiv(RNeg(cap), dt)),
           ResultCall(pe, RDiv(RMul(cap, c.voltage), dt)),
           CoefficientCall(ne, pv, RDiv(RNeg(cap), dt)),
           CoefficientCall(ne, nv, RDiv(cap, dt)),
           ResultCall(ne, RDiv(RMul(RNeg(cap), c.voltage), dt)) >>

\* the inductor stamp with the sign of its right-hand side inverted
stamp_inductor_rhs_sign(c, dt) ==
    LET pe == NodalEquation(c.positive_node)
        ne == NodalEquation(c.negative_node)
        pv == NodeVoltage(c.positive_node)
        nv == NodeVoltage(c.negative_node)
        l == c.param
    IN  << CoefficientCall(pe, pv, RDiv(dt, l)),
           CoefficientCall(pe, nv, RDiv(RNeg(dt), l)),
           ResultCall(pe, c.current),
           CoefficientCall(ne, pv, RDiv(RNeg(dt), l)),
           CoefficientCall(ne, nv, RDiv(dt, l)),
           ResultCall(ne, RNeg(c.current)) >>

\* the inductor stamp with L/dt in the place of dt/L
stamp_inductor_inverse(c, dt) ==
    LET pe == NodalEquation(c.positive_node)
        ne == NodalEquation(c.negative_node)
        pv == NodeVoltage(c.positive_node)
        nv == NodeVoltage(c.negative_node)
        l == c.param
    IN  << CoefficientCall(pe, pv, RDiv(l, dt)),
           CoefficientCall(pe, nv, RDiv(RNeg(l), dt)),
           ResultCall(pe, RNeg(c.current)),
           CoefficientCall(ne, pv, RDiv(RNeg(l), dt)),
           CoefficientCall(ne, nv, RDiv(l, dt)),
           ResultCall(ne, c.current) >>

\* Inductor::stamp
stamp_inductor(c, dt) ==
    LET pe == NodalEquation(c.positive_node)
        ne == NodalEquation(c.negative_node)
        pv == NodeVoltage(c.positive_node)
        nv == NodeVoltage(c.negative_node)
        l == c.param
    IN  << CoefficientCall(pe, pv, RDiv(dt, l)),
           CoefficientCall(pe, nv, RDiv(RNeg(dt), l)),
           ResultCall(pe, RNeg(c.current)),
           CoefficientCall(ne, pv, RDiv(RNeg(dt), l)),
           CoefficientCall(ne, nv, RDiv(dt, l)),
           ResultCall(ne, c.current) >>

\* the voltage source stamp adding both terminals with the same sign
stamp_voltage_source_same_sign(c, dt) ==
    LET pe == NodalEquation(c.positive_node)
        ne == NodalEquation(c.negative_node)
        se == SpecificEquation(0)
        pv == NodeVoltage(c.positive_node)
        nv == NodeVoltage(c.negative_node)
        ci == SpecificVariable(0)
    IN  << CoefficientCall(pe, ci, RNeg(One)),
           CoefficientCall(ne, ci, One),
           CoefficientCall(se, pv, One),
           CoefficientCall(se, nv, One),
           ResultCall(se, c.voltage) >>

\* the voltage source stamp without the calls for its negative terminal
stamp_voltage_source_positive_only(c, dt) ==
    LET pe == NodalEquation(c.positive_node)
        se == SpecificEquation(0)
        pv == NodeVoltage(c.positive_node)
        ci == SpecificVariable(0)
    IN  << CoefficientCall(pe, ci, RNeg(One)),
           CoefficientCall(se, pv, One),
           ResultCall(se, c.voltage) >>

\* the voltage source stamp with the signs of its current column exchanged
stamp_voltage_source_current_reversed(c, dt) ==
    LET pe == NodalEquation(c.positive_node)
        ne == NodalEquation(c.negative_node)
        se == SpecificEquation(0)
        pv == NodeVoltage(c.positive_node)
        nv == NodeVoltage(c.negative_node)
        ci == SpecificVariable(0)
    IN  << CoefficientCall(pe, ci, One),
           CoefficientCall(ne, ci, RNeg(One)),
           CoefficientCall(se, pv, One),
           CoefficientCall(se, nv, RNeg(One)),
           ResultCall(se, c.voltage) >>

\* VoltageSource::stamp
stamp_voltage_source(c, dt) ==
    LET pe == NodalEquation(c.positive_node)
        ne == NodalEquation(c.negative_node)
        se == SpecificEquation(0)
        pv == NodeVoltage(c.positive_node)
        nv == NodeVoltage(c.negative_node)
        ci == SpecificVariable(0)
    IN  << CoefficientCall(pe, ci, RNeg(One)),
           CoefficientCall(ne, ci, One),
           CoefficientCall(se, pv, One),
           CoefficientCall(se, nv, RNeg(One)),
           ResultCall(se, c.voltage) >>

\* the current source stamp injecting into the negative node
stamp_current_source_reversed(c, dt) ==
    LET pe == NodalEquation(c.positive_node)
        ne == NodalEquation(c.negative_node)
    IN  << ResultCall(pe, RNeg(c.current)),
           ResultCall(ne, c.current) >>

\* CurrentSource::stamp
stamp_current_source(c, dt) ==
    LET pe == NodalEquation(c.positive_node)
        ne == NodalEquation(c.negative_node)
    IN  << ResultCall(pe, c.current),
           ResultCall(ne, RNeg(c.current)) >>

\* impl Stampable for Component: stamp
stamp_calls(c, dt) ==
    CASE c.kind = "Resistor" -> stamp_resistor(c, dt)
      [] c.kind = "Capacitor" -> stamp_capacitor(c, dt)
      [] c.kind = "Inductor" -> stamp_inductor(c, dt)
      [] c.kind = "VoltageSource" -> stamp_voltage_source(c, dt)
      [] c.kind = "CurrentSource" -> stamp_current_source(c, dt)

\* One call on the view
call_view(view, call) ==
    IF call.kind = "coefficient_add"
    THEN coefficient_add(view, call.eq, call.var, call.value)
    ELSE result_add(view, call.eq, call.value)

RECURSIVE apply_calls(_, _)
apply_calls(view, calls) ==
    IF calls = <<>> THEN view
    ELSE Let(call_view(view, Head(calls)),
             LAMBDA done : apply_calls(done, Tail(calls)))

\* The stamp of an element through the view it was handed
stamp(c, view, dt) == apply_calls(view, stamp_calls(c, dt))

\* The two nodal reads every update but the voltage source's makes:
\* view.get_variable(positive).unwrap() - view.get_variable(negative).unwrap()
nodal_difference(c, view) ==
    RSub(get_variable(view, NodeVoltage(c.positive_node)),
         get_variable(view, NodeVoltage(c.negative_node)))

\* Whether every unwrap() of the element's update finds Some
unwraps(c, view) ==
    IF c.kind = "VoltageSource"
    THEN get_variable(view, SpecificVariable(0)) # NoValue
    ELSE /\ get_variable(view, NodeVoltage(c.positive_node)) # NoValue
         /\ get_variable(view, NodeVoltage(c.negative_node)) # NoValue

\* Resistor::update
update_resistor(c, view, dt) ==
    [c EXCEPT !.voltage = nodal_difference(c, view)]

\* a capacitor update that overwrites the stored voltage first, so that the
\* current is computed from a voltage difference of zero
update_capacitor_voltage_first(c, view, dt) ==
    LET new_voltage == nodal_difference(c, view)
    IN  [c EXCEPT !.voltage = new_voltage,
                  !.current =
                     RDiv(RMul(c.param, RSub(new_voltage, new_voltage)), dt)]

\* Capacitor::update: the current is set from the stored voltage, and only
\* then the stored voltage is overwritten
update_capacitor(c, view, dt) ==
    LET new_voltage == nodal_difference(c, view)
    IN  [c EXCEPT !.current =
                     RDiv(RMul(c.param, RSub(new_voltage, c.voltage)), dt),
                  !.voltage = new_voltage]

\* an inductor update that advances the current by the voltage of the step
\* before
update_inductor_previous_voltage(c, view, dt) ==
    LET new_voltage == nodal_difference(c, view)
    IN  [c EXCEPT !.voltage = new_voltage,
                  !.current = RAdd(RDiv(RMul(c.voltage, dt), c.param),
                                   c.current)]

\* Inductor::update: the voltage is set first, the current then reads it
update_inductor(c, view, dt) ==
    LET new_voltage == nodal_difference(c, view)
    IN  [c EXCEPT !.voltage = new_voltage,
                  !.current = RAdd(RDiv(RMul(new_voltage, dt), c.param),
                                   c.current)]

\* a voltage source update that reads its current with the opposite sign
update_voltage_source_negated(c, view, dt) ==
    [c EXCEPT !.current = RNeg(get_variable(view, SpecificVariable(0)))]

\* a voltage source update that stores what it read as the source's voltage
update_voltage_source_sets_voltage(c, view, dt) ==
    [c EXCEPT !.voltage = get_variable(view, SpecificVariable(0))]

\* VoltageSource::update
update_voltage_source(c, view, dt) ==
    [c EXCEPT !.current = get_variable(view, SpecificVariable(0))]

\* CurrentSource::update
update_current_source(c, view, dt) ==
    [c EXCEPT !.voltage = nodal_difference(c, view)]

\* impl Stampable for Component: update
update(c, view, dt) ==
    CASE c.kind = "Resistor" -> update_resistor(c, view, dt)
      [] c.kind = "Capacitor" -> update_capacitor(c, view, dt)
      [] c.kind = "Inductor" -> update_inductor(c, view, dt)
      [] c.kind = "VoltageSource" -> update_voltage_source(c, view, dt)
      [] c.kind = "CurrentSource" -> update_current_source(c, view, dt)

\* ------------------------------------------------------------------------
\* The solver driver (be_solver/mod.rs): size the system, stamp every
\* element, invert, update every element.  BESolver::solve in mod.rs walks
\* one list per element kind and numbers the voltage sources by their index
\* in their list (row and column num_nodes + index); the elements here are
\* the Component values of one netlist and stamp through views, so each is
\* handed the view of its own auxiliary slot: the node count plus the
\* auxiliaries of the elements before it, which for a voltage source is the
\* same num_nodes + index.
\* ------------------------------------------------------------------------
Identity(n) == [k \in 1..n |-> k]

\* The view the k-th element is handed over the system <<ma, mb>>
view_of(cs, k, ma, mb) ==
    ABMatrixView(ma, mb, get_num_nodes(cs), num_variables(cs[k]),
                 variables_start(cs, k))

\* The assembly pass: each element stamps through a view positioned at its
\* own auxiliary slot.  `order` lists the elements in the order of the calls.
RECURSIVE stamp_in_order(_, _, _, _)
stamp_in_order(cs, order, problem, dt) ==
    IF order = <<>> THEN problem
    ELSE Let(stamp(cs[Head(order)],
                   view_of(cs, Head(order), problem.a, problem.b), dt),
             LAMBDA done : stamp_in_order(cs, Tail(order),
                                          [a |-> done.a, b |-> done.b], dt))

\* ABMatrix::new followed by the stamping of every element in netlist order
assemble(cs, dt) ==
    Let(get_num_nodes(cs) + SumVariables(cs, Len(cs)),
        LAMBDA dim : stamp_in_order(cs, Identity(Len(cs)),
                                    [a |-> ZeroA(dim), b |-> ZeroB(dim)], dt))

\* Determinant by expansion along the first of `rows`
Without(seq, j) ==
    [i \in 1..(Len(seq) - 1) |-> IF i < j THEN seq[i] ELSE seq[i + 1]]

RECURSIVE SumTo(_, _)
SumTo(f, n) == IF n = 0 THEN Zero ELSE RAdd(SumTo(f, n - 1), f[n])

RECURSIVE Det(_, _, _)
Det(m, rows, cols) ==
    IF rows = <<>> THEN One
    ELSE Let([j \in 1..Len(cols) |->
                IF m[Head(rows)][cols[j]] = Zero THEN Zero
                ELSE Let(<<Tail(rows), Without(cols, j)>>,
                         LAMBDA rest :
                            Let(Det(m, rest[1], rest[2]),
                                LAMBDA minor :
                                   IF j % 2 = 1
                                   THEN RMul(m[Head(rows)][cols[j]], minor)
                                   ELSE RNeg(RMul(m[Head(rows)][cols[j]], minor))))],
             LAMBDA term : SumTo(term, Len(cols)))

Indices(dim) == [k \in 1..dim |-> k - 1]

determinant(m, dim) ==
    Let(Indices(dim), LAMBDA all : Det(m, all, all))

\* an inversion that also refuses the matrix of dimension 0
is_singular_when_empty(m, dim) == dim = 0 \/ determinant(m, dim) = Zero

\* a.try_inverse(): None exactly when the matrix is singular
is_singular(m, dim) == determinant(m, dim) = Zero

\* a.try_inverse().unwrap() * b, for an invertible a
ReplaceColumn(m, dim, c, col) ==
    [r \in 0..(dim - 1) |->
        [k \in 0..(dim - 1) |-> IF k = c THEN col[r] ELSE m[r][k]]]

inverse_times(m, rhs, dim) ==
    Let(determinant(m, dim),
        LAMBDA d :
           [i \in 0..(dim - 1) |->
               Let(ReplaceColumn(m, dim, i, rhs),
                   LAMBDA mi : RDiv(determinant(mi, dim), d))])

\* The update pass, element by element; an unwrap() of None panics there and
\* leaves the elements before it updated.
x_view_of(cs, k, sol) ==
    XMatrixView(sol, get_num_nodes(cs), num_variables(cs[k]),
                variables_start(cs, k))

RECURSIVE FirstPanic(_, _, _, _)
FirstPanic(cs, sol, k, n) ==
    IF k > n THEN n + 1
    ELSE IF unwraps(cs[k], x_view_of(cs, k, sol))
         THEN FirstPanic(cs, sol, k + 1, n)
         ELSE k

update_pass(cs, sol, dt) ==
    Let(FirstPanic(cs, sol, 1, Len(cs)),
        LAMBDA stop :
           [k \in 1..Len(cs) |->
               IF k < stop
               THEN Let(x_view_of(cs, k, sol),
                        LAMBDA xv : update(cs[k], xv, dt))
               ELSE cs[k]])

\* a solve that runs the update pass, on a zero solution, when the matrix
\* is singular
solve_problem_updates_on_failure(cs, dt, problem, dim) ==
    IF is_singular(problem.a, dim)
    THEN [components |-> update_pass(cs, ZeroB(dim), dt),
          a |-> problem.a, b |-> problem.b, x |-> <<>>,
          outcome |-> "SingularMatrix"]
    ELSE Let(inverse_times(problem.a, problem.b, dim),
             LAMBDA sol :
                [components |-> update_pass(cs, sol, dt),
                 a |-> problem.a, b |-> problem.b, x |-> sol,
                 outcome |-> "Ok"])

\* BESolver::solve: assemble, invert (panicking on a singular matrix before
\* anything is written back), update.
solve_problem(cs, dt, problem, dim) ==
    IF is_singular(problem.a, dim)
    THEN [components |-> cs, a |-> problem.a, b |-> problem.b, x |-> <<>>,
          outcome |-> "SingularMatrix"]
    ELSE Let(inverse_times(problem.a, problem.b, dim),
             LAMBDA sol :
                [components |-> update_pass(cs, sol, dt),
                 a |-> problem.a, b |-> problem.b, x |-> sol,
                 outcome |-> IF FirstPanic(cs, sol, 1, Len(cs)) > Len(cs)
                             THEN "Ok" ELSE "UnwrapNone"])

solve(cs, dt) ==
    Let(assemble(cs, dt),
        LAMBDA problem :
           solve_problem(cs, dt, problem,
                         get_num_nodes(cs) + SumVariables(cs, Len(cs))))

\* ------------------------------------------------------------------------
\* Inputs
\* ------------------------------------------------------------------------
Nodes == 0..MaxNode
Steps == {Rat(1), Rat(2)}

NewComponents ==
    UNION { { Resistor(p, n, Rat(2)),
              Capacitor(p, n, Rat(1), Rat(1)),
              Inductor(p, n, Rat(1), Rat(1)),
              VoltageSource(p, n, Rat(3)),
              CurrentSource(p, n, Rat(1)) } : p \in Nodes, n \in Nodes }

\* ------------------------------------------------------------------------
\* The netlist and the solver as a state machine
\* ------------------------------------------------------------------------
NetlistInit ==
    /\ components = <<>>
    /\ a = <<>>
    /\ b = <<>>
    /\ x = <<>>
    /\ outcome = "NotSolved"
    /\ before = <<>>
    /\ last_dt = Zero
    /\ solves = 0

NoCall == [kind |-> "none"]

ViewIdle ==
    /\ ab_view = ABMatrixView(<<>>, <<>>, 0, 0, 0)
    /\ ab_before = [a |-> <<>>, b |-> <<>>, calls |-> 0]
    /\ op = NoCall

ReadIdle ==
    /\ x_view = XMatrixView(<<>>, 0, 0, 0)
    /\ read = NoCall

CircuitIdle ==
    /\ built = <<>>
    /\ elapsed = Zero

StepIdle ==
    /\ pc = "idle"
    /\ passes = <<>>

DiodeIdle ==
    /\ diode = NoCall
    /\ diode_read = NoCall

Init == NetlistInit /\ ViewIdle /\ ReadIdle /\ CircuitIdle /\ StepIdle /\ DiodeIdle

\* Netlist::add_component
AddComponent(c) ==
    /\ Len(components) < MaxComponents
    /\ components' = Append(components, c)
    /\ outcome' = "NotSolved"
    /\ UNCHANGED <<a, b, x, before, last_dt, solves>>
    /\ UNCHANGED <<view_vars, read_vars, circuit_vars, step_vars, diode_vars>>

\* BESolver::new(&mut netlist).solve(dt)
Solve(dt) ==
    /\ solves < MaxSolves
    /\ \E done \in {solve(components, dt)} :
          /\ components' = done.components
          /\ a' = done.a
          /\ b' = done.b
          /\ x' = done.x
          /\ outcome' = done.outcome
    /\ before' = components
    /\ last_dt' = dt
    /\ solves' = solves + 1
    /\ UNCHANGED <<view_vars, read_vars, circuit_vars, step_vars, diode_vars>>

Next ==
    \/ \E c \in NewComponents : AddComponent(c)
    \/ \E dt \in Steps : Solve(dt)

Spec == Init /\ [][Next]_vars


\* ------------------------------------------------------------------------
\* One assembly view, used call by call
\* ------------------------------------------------------------------------
Deltas == {<<-1, 2>>}
ViewIndices == 0..MaxDim
EquationIndices ==
    {NodalEquation(i) : i \in ViewIndices} \cup {SpecificEquation(i) : i \in ViewIndices}
VariableIndices ==
    {NodeVoltage(i) : i \in ViewIndices} \cup {SpecificVariable(i) : i \in ViewIndices}

\* Views as the driver positions them: inside a dim x dim system of
\* num_nodes nodal rows, the element's slice [start, start + num) within it.
InitView ==
    /\ \E dim \in 0..MaxDim, num_nodes \in 0..MaxDim, num \in 0..MaxDim,
          start \in 0..MaxDim :
          /\ num_nodes <= dim
          /\ start + num <= dim
          /\ ab_view = ABMatrixView(ZeroA(dim), ZeroB(dim), num_nodes, num, start)
          /\ ab_before = [a |-> ZeroA(dim), b |-> ZeroB(dim), calls |-> 0]
    /\ op = NoCall
    /\ NetlistInit
    /\ ReadIdle
    /\ CircuitIdle /\ StepIdle /\ DiodeIdle

CoefficientAdd(eq, var, value) ==
    /\ ab_before.calls < MaxOps
    /\ ab_view' = coefficient_add(ab_view, eq, var, value)
    /\ ab_before' = [a |-> ab_view.a, b |-> ab_view.b, calls |-> ab_before.calls + 1]
    /\ op' = [kind |-> "coefficient_add", eq |-> eq, var |-> var, value |-> value]
    /\ UNCHANGED <<netlist_vars, read_vars, circuit_vars, step_vars, diode_vars>>

ResultAdd(eq, value) ==
    /\ ab_before.calls < MaxOps
    /\ ab_view' = result_add(ab_view, eq, value)
    /\ ab_before' = [a |-> ab_view.a, b |-> ab_view.b, calls |-> ab_before.calls + 1]
    /\ op' = [kind |-> "result_add", eq |-> eq, value |-> value]
    /\ UNCHANGED <<netlist_vars, read_vars, circuit_vars, step_vars, diode_vars>>

NextView ==
    \/ \E eq \in EquationIndices, var \in VariableIndices, value \in Deltas :
          CoefficientAdd(eq, var, value)
    \/ \E eq \in EquationIndices, value \in Deltas : ResultAdd(eq, value)

SpecView == InitView /\ [][NextView]_vars

\* ------------------------------------------------------------------------
\* One operating-point view, read call by call
\* ------------------------------------------------------------------------
Entries == {One, <<-1, 2>>}

Vectors == UNION {[0..(len - 1) -> Entries] : len \in 0..MaxDim}

InitRead ==
    /\ \E mx \in Vectors, num_nodes \in ViewIndices, num \in ViewIndices,
          start \in ViewIndices :
          x_view = XMatrixView(mx, num_nodes, num, start)
    /\ read = NoCall
    /\ NetlistInit
    /\ ViewIdle
    /\ CircuitIdle /\ StepIdle /\ DiodeIdle

GetVariable(var) ==
    /\ read' = [kind |-> "get_variable", var |-> var,
                value |-> get_variable(x_view, var)]
    /\ UNCHANGED <<netlist_vars, view_vars, x_view>>
    /\ UNCHANGED <<circuit_vars, step_vars, diode_vars>>

NextRead == \E var \in VariableIndices : GetVariable(var)

SpecRead == InitRead /\ [][NextRead]_vars

\* ------------------------------------------------------------------------
\* Netlists with any parameter the constructors accept: Resistor::new,
\* Capacitor::new and Inductor::new take any f64, a negative one included
\* ------------------------------------------------------------------------
NegativeParameterComponents ==
    { Resistor(1, 0, Rat(-2)),
      Capacitor(1, 0, Rat(-1), Rat(1)),
      Inductor(1, 0, Rat(-1), Rat(1)) }

NextAnyParameter ==
    \/ \E c \in NewComponents \cup NegativeParameterComponents : AddComponent(c)
    \/ \E dt \in Steps : Solve(dt)

SpecAnyParameter == Init /\ [][NextAnyParameter]_vars

\* ------------------------------------------------------------------------
\* Whole circuits stepped through time (the circuits of the tests of
\* be_solver/mod.rs, over small values): the netlist is built once and then
\* only solved; the elements keep their state from one solve to the next.
\* ------------------------------------------------------------------------
CircuitSteps == {<<1, 4>>, <<3, 4>>, Rat(1)}

\* test_voltage_source_resistor
SourceResistor ==
    { << VoltageSource(1, 0, Rat(v)), Resistor(1, 0, Rat(r)) >> :
        v \in {10, 5}, r \in {2, 4} }

\* test_two_voltage_source_resistor
TwoSourceResistor ==
    { << VoltageSource(1, 0, Rat(v1)), Resistor(1, 2, Rat(r)),
         VoltageSource(2, 0, Rat(v2)) >> :
        v1 \in {10, 5}, v2 \in {10, 5}, r \in {2, 4} }

\* test_voltage_source_voltage_divider
VoltageDivider ==
    { << VoltageSource(1, 0, Rat(v)), Resistor(1, 2, Rat(r1)),
         Resistor(2, 0, Rat(r2)) >> :
        v \in {5, 10}, r1 \in {4, 2}, r2 \in {1, 2} }

\* test_current_source_capacitor
SourceCapacitor ==
    { << CurrentSource(1, 0, Rat(i)), Capacitor(1, 0, c, Rat(v0)) >> :
        i \in {1, 2}, c \in {<<1, 2>>, One}, v0 \in {0, 1} }

\* test_rc_step
SeriesRC ==
    { << VoltageSource(1, 0, Rat(v)), Resistor(1, 2, Rat(r)),
         Capacitor(2, 0, c, Rat(v0)) >> :
        v \in {1, 3}, r \in {1, 2}, c \in {<<1, 2>>, One}, v0 \in {0, 1, 2} }

\* an inductor across a voltage source, and in series with a resistor
SourceInductor ==
    { << VoltageSource(1, 0, Rat(v)), Inductor(1, 0, Rat(l), Rat(i0)) >> :
        v \in {2, -1}, l \in {1, 2}, i0 \in {0, 1} }

SeriesRL ==
    { << VoltageSource(1, 0, Rat(v)), Resistor(1, 2, Rat(r)),
         Inductor(2, 0, Rat(l), Rat(i0)) >> :
        v \in {2, -1}, r \in {1, 2}, l \in {1, 2}, i0 \in {0, 1} }

Circuits ==
    SourceResistor \cup TwoSourceResistor \cup VoltageDivider
        \cup SourceCapacitor \cup SeriesRC \cup SourceInductor \cup SeriesRL

InitCircuits ==
    /\ \E cs \in Circuits :
          /\ components = cs
          /\ built = cs
    /\ elapsed = Zero
    /\ a = <<>>
    /\ b = <<>>
    /\ x = <<>>
    /\ outcome = "NotSolved"
    /\ before = <<>>
    /\ last_dt = Zero
    /\ solves = 0
    /\ ViewIdle
    /\ ReadIdle
    /\ StepIdle
    /\ DiodeIdle

\* solver.solve(dt), by the solver of the last step or by a new
\* BESolver::new(&mut netlist): a BESolver holds the netlist and nothing else
Advance(dt) ==
    /\ solves < MaxSteps
    /\ \E done \in {solve(components, dt)} :
          /\ components' = done.components
          /\ a' = done.a
          /\ b' = done.b
          /\ x' = done.x
          /\ outcome' = done.outcome
    /\ before' = components
    /\ last_dt' = dt
    /\ solves' = solves + 1
    /\ elapsed' = RAdd(elapsed, dt)
    /\ UNCHANGED <<built, view_vars, read_vars, step_vars, diode_vars>>

NextCircuits == \E dt \in CircuitSteps : Advance(dt)

SpecCircuits == InitCircuits /\ [][NextCircuits]_vars

\* ------------------------------------------------------------------------
\* One stamp on a system: an element stamps through the view made for it,
\* into a system that has a row and a column for every node it names and
\* that holds what the element before it (if any) has stamped.  The view
\* has the element's own count of auxiliary variables, starting after the
\* node rows and the auxiliary slot of the element before it.
\* The elements carry state from earlier solves.
\* ------------------------------------------------------------------------
StampedElements ==
    NewComponents
      \cup UNION { { [Resistor(p, n, Rat(2)) EXCEPT !.voltage = Rat(3)],
                     [Resistor(p, n, <<1, 2>>) EXCEPT !.voltage = Rat(3)],
                     Capacitor(p, n, Rat(2), Rat(3)),
                     Inductor(p, n, Rat(2), Rat(3)),
                     VoltageSource(p, n, Rat(-1)),
                     CurrentSource(p, n, Rat(2)) } : p \in Nodes, n \in Nodes }

\* the elements stamped before: none, or one
StampedBefore == {<<>>} \cup { <<c>> : c \in NewComponents }

\* the system when the view of the next element is made, with room for
\* `room` auxiliary variables after those of the elements before
system_after(earlier, room) ==
    LET dim == MaxNode + SumVariables(earlier, Len(earlier)) + room
    IN  IF earlier = <<>>
        THEN ABMatrixView(ZeroA(dim), ZeroB(dim), MaxNode, 0, MaxNode)
        ELSE stamp(earlier[1],
                   ABMatrixView(ZeroA(dim), ZeroB(dim), MaxNode,
                                num_variables(earlier[1]), MaxNode), One)

InitStamp ==
    /\ \E room \in 0..1, earlier \in StampedBefore :
          \E system \in {system_after(earlier, room)} :
             /\ ab_view = ABMatrixView(system.a, system.b, MaxNode, 0,
                              MaxNode + SumVariables(earlier, Len(earlier)))
             /\ ab_before = [a |-> system.a, b |-> system.b, calls |-> 0]
    /\ op = NoCall
    /\ NetlistInit
    /\ ReadIdle
    /\ CircuitIdle
    /\ StepIdle
    /\ DiodeIdle

\* component.stamp(&mut view, &op_point, dt)
StampElement(c, dt) ==
    /\ op = NoCall
    /\ ab_view.variables_start + num_variables(c) <= Cardinality(DOMAIN ab_view.b)
    /\ ab_view' = stamp(c, ABMatrixView(ab_view.a, ab_view.b, ab_view.num_nodes,
                                        num_variables(c),
                                        ab_view.variables_start), dt)
    /\ ab_before' = [a |-> ab_view.a, b |-> ab_view.b,
                     calls |-> ab_before.calls + 1]
    /\ op' = [kind |-> "stamp", element |-> c, dt |-> dt]
    /\ UNCHANGED <<netlist_vars, read_vars, circuit_vars, step_vars, diode_vars>>

NextStamp == \E c \in StampedElements, dt \in Steps : StampElement(c, dt)

SpecStamp == InitStamp /\ [][NextStamp]_vars

\* ------------------------------------------------------------------------
\* One update from a solution: an element updates through the view made for
\* it over a solved x that has an entry for every node it names; the view
\* has the element's own count of auxiliary variables, after the node
\* entries.  The elements carry state from earlier solves.
\* ------------------------------------------------------------------------
Solutions == UNION {[0..(MaxNode + room - 1) -> Entries] : room \in 0..1}

InitUpdate ==
    /\ \E sol \in Solutions : x_view = XMatrixView(sol, MaxNode, 0, MaxNode)
    /\ read = NoCall
    /\ NetlistInit
    /\ ViewIdle
    /\ CircuitIdle
    /\ StepIdle
    /\ DiodeIdle

\* component.update(&view, dt); it returns when every unwrap() finds Some
UpdateElement(c, dt) ==
    /\ read = NoCall
    /\ \E view \in {XMatrixView(x_view.x, x_view.num_nodes, num_variables(c),
                                x_view.variables_start)} :
          /\ unwraps(c, view)
          /\ x_view' = view
          /\ read' = [kind |-> "update", element |-> c, dt |-> dt,
                      updated |-> update(c, view, dt)]
    /\ UNCHANGED <<netlist_vars, view_vars, circuit_vars, step_vars, diode_vars>>

NextUpdate == \E c \in StampedElements, dt \in Steps : UpdateElement(c, dt)

SpecUpdate == InitUpdate /\ [][NextUpdate]_vars

\* ------------------------------------------------------------------------
\* The diode (components/diode.rs).  Its current is c*e^q + k for rationals
\* c, q, k; such a number is kept exactly as the record of the three, with
\* c = 0 and q = 0 whenever the exponential term is a constant, so that two
\* records are equal exactly when the numbers are (e^q is irrational for
\* every rational q other than 0).
\* ------------------------------------------------------------------------
ENum(c, q, k) ==
    IF c = Zero THEN [coef |-> Zero, exponent |-> Zero, const |-> k]
    ELSE IF q = Zero THEN [coef |-> Zero, exponent |-> Zero,
                           const |-> RAdd(c, k)]
    ELSE [coef |-> c, exponent |-> q, const |-> k]

\* f64::exp
exp(q) == ENum(One, q, Zero)

ESub(n, r) == ENum(n.coef, n.exponent, RSub(n.const, r))

EMul(r, n) == ENum(RMul(r, n.coef), n.exponent, RMul(r, n.const))

\* Diode::new: the stored voltage starts at 0.0
Diode(p, n, is, eta, vt) ==
    [positive_node |-> p, negative_node |-> n,
     reverse_saturation_current |-> is, ideality_factor |-> eta,
     thermal_voltage |-> vt, voltage |-> Zero]

\* Diode::set_voltage
set_voltage(d, v) == [d EXCEPT !.voltage = v]

\* Diode::get_current_with_voltage
get_current_with_voltage(d, v) ==
    EMul(d.reverse_saturation_current,
         ESub(exp(RDiv(v, RMul(d.ideality_factor, d.thermal_voltage))), One))

\* a diode that reads the current of the voltage it was constructed with
diode_get_current_of_construction(d) == get_current_with_voltage(d, Zero)

\* Diode::get_current
diode_get_current(d) == get_current_with_voltage(d, d.voltage)

\* Diode::get_power
diode_get_power(d) == EMul(d.voltage, diode_get_current(d))

\* The auxiliary variables of a diode.  Component has no Diode variant and
\* stampable.rs has no impl Stampable for Diode; the count is the
\* documented one.
diode_num_variables(d) == 0

Diodes ==
    { Diode(p, n, is, eta, vt) :
        p \in {1}, n \in {0, 2}, is \in {One, <<1, 2>>},
        eta \in {One, Rat(2)}, vt \in {One, <<1, 2>>} }

DiodeVoltages == {Rat(-1), Zero, <<1, 2>>, One, Rat(2)}

InitDiode ==
    /\ \E d \in Diodes : diode = d
    /\ diode_read = [kind |-> "new"]
    /\ NetlistInit
    /\ ViewIdle
    /\ ReadIdle
    /\ CircuitIdle
    /\ StepIdle

SetVoltage(v) ==
    /\ diode' = set_voltage(diode, v)
    /\ diode_read' = [kind |-> "set_voltage", voltage |-> v]
    /\ UNCHANGED <<netlist_vars, view_vars, read_vars, circuit_vars, step_vars>>

GetCurrent ==
    /\ diode_read' = [kind |-> "get_current", value |-> diode_get_current(diode)]
    /\ UNCHANGED diode
    /\ UNCHANGED <<netlist_vars, view_vars, read_vars, circuit_vars, step_vars>>

GetPower ==
    /\ diode_read' = [kind |-> "get_power", value |-> diode_get_power(diode)]
    /\ UNCHANGED diode
    /\ UNCHANGED <<netlist_vars, view_vars, read_vars, circuit_vars, step_vars>>

NextDiode ==
    \/ \E v \in DiodeVoltages : SetVoltage(v)
    \/ GetCurrent
    \/ GetPower

SpecDiode == InitDiode /\ [][NextDiode]_vars

\* ------------------------------------------------------------------------
\* BESolver::solve pass by pass: sizing, the stamping pass, the inversion,
\* the update pass
\* ------------------------------------------------------------------------
Resting == {"idle", "returned", "panicked"}

\* after the inversion another assembly follows unless the solution repeats
\* the previous one
after_inversion_until_unchanged(guess, sol) ==
    IF sol = guess THEN "update" ELSE "assemble"

\* What follows the inversion: the update pass, whatever the solution
after_inversion(guess, sol) == "update"

\* solve(dt) is entered
Call(dt) ==
    /\ pc \in Resting
    /\ solves < MaxSolves
    /\ pc' = "assemble"
    /\ passes' = <<>>
    /\ before' = components
    /\ last_dt' = dt
    /\ solves' = solves + 1
    /\ a' = <<>> /\ b' = <<>> /\ x' = <<>>
    /\ outcome' = "Running"
    /\ UNCHANGED <<components, view_vars, read_vars, circuit_vars, diode_vars>>

\* ABMatrix::new and the stamping of every element
AssemblyPass ==
    /\ pc = "assemble"
    /\ \E problem \in {assemble(components, last_dt)} :
          a' = problem.a /\ b' = problem.b
    /\ passes' = Append(passes, "assemble")
    /\ pc' = "invert"
    /\ UNCHANGED <<components, x, outcome, before, last_dt, solves>>
    /\ UNCHANGED <<view_vars, read_vars, circuit_vars, diode_vars>>

\* a.try_inverse().unwrap() * b
LinearSolve ==
    /\ pc = "invert"
    /\ passes' = Append(passes, "invert")
    /\ \E dim \in {get_num_nodes(components) + SumVariables(components, Len(components))} :
          IF is_singular(a, dim)
          THEN /\ pc' = "panicked"
               /\ outcome' = "SingularMatrix"
               /\ x' = x
          ELSE \E sol \in {inverse_times(a, b, dim)} :
                  /\ x' = sol
                  /\ pc' = after_inversion(x, sol)
                  /\ outcome' = outcome
    /\ UNCHANGED <<components, a, b, before, last_dt, solves>>
    /\ UNCHANGED <<view_vars, read_vars, circuit_vars, diode_vars>>

\* the update of every element from the solution
UpdatePass ==
    /\ pc = "update"
    /\ passes' = Append(passes, "update")
    /\ components' = update_pass(components, x, last_dt)
    /\ IF FirstPanic(components, x, 1, Len(components)) > Len(components)
       THEN pc' = "returned" /\ outcome' = "Ok"
       ELSE pc' = "panicked" /\ outcome' = "UnwrapNone"
    /\ UNCHANGED <<a, b, x, before, last_dt, solves>>
    /\ UNCHANGED <<view_vars, read_vars, circuit_vars, diode_vars>>

NextSteps ==
    \/ \E c \in NewComponents : pc \in Resting /\ AddComponent(c)
    \/ \E dt \in Steps : Call(dt)
    \/ AssemblyPass
    \/ LinearSolve
    \/ UpdatePass

SpecSteps == Init /\ [][NextSteps]_vars


\* ------------------------------------------------------------------------
\* Properties of the solver (checked under Spec)
\* ------------------------------------------------------------------------

\* C1: a solve that fails on a singular matrix leaves the state of every
\* element exactly as it was when the solve was entered.
C1_FailedSolveLeavesState ==
    outcome = "SingularMatrix" => components = before

\* an inductor carries a voltage written by an earlier successful solve, and
\* the last solve failed
C1_Witness ==
    /\ outcome = "SingularMatrix"
    /\ solves >= 2
    /\ \E k \in DOMAIN components :
          components[k].kind = "Inductor" /\ components[k].voltage # Zero

\* The current leaving node k through element c, from the element's readout.
\* A source's readout is the current it delivers out of its positive terminal.
leaving(c, k) ==
    LET i == IF c.kind \in {"VoltageSource", "CurrentSource"}
             THEN RNeg(get_current(c)) ELSE get_current(c)
    IN  RAdd(IF c.positive_node = k THEN i ELSE Zero,
             IF c.negative_node = k THEN RNeg(i) ELSE Zero)

node_sum(cs, k) == SumTo([j \in 1..Len(cs) |-> leaving(cs[j], k)], Len(cs))

\* C2: after a successful solve the currents leaving every non-ground node,
\* taken from the updated readouts of the elements, sum to zero.
C2_KirchhoffCurrentLaw ==
    outcome = "Ok" =>
        \A k \in 1..(MaxNode + 1) : node_sum(components, k) = Zero

\* two elements of different kinds carry a non-zero current at one node
C2_Witness ==
    /\ outcome = "Ok"
    /\ \E i, j \in DOMAIN components :
          /\ components[i].kind # components[j].kind
          /\ get_current(components[i]) # Zero
          /\ get_current(components[j]) # Zero
          /\ \E k \in 1..MaxNode :
                leaving(components[i], k) # Zero /\ leaving(components[j], k) # Zero

\* The solved voltage of node k; node 0 is ground
node_voltage(sol, k) == IF k = 0 THEN Zero ELSE sol[k - 1]

\* C3: after a successful solve every voltage source sees its own voltage
\* between the solved voltages of its terminals.
C3_VoltageSourceLaw ==
    outcome = "Ok" =>
        \A k \in DOMAIN components :
            components[k].kind = "VoltageSource" =>
                RSub(node_voltage(x, components[k].positive_node),
                     node_voltage(x, components[k].negative_node))
                    = components[k].voltage

\* a voltage source between two non-ground nodes, solved
C3_Witness ==
    /\ outcome = "Ok"
    /\ \E k \in DOMAIN components :
          /\ components[k].kind = "VoltageSource"
          /\ components[k].positive_node # 0
          /\ components[k].negative_node # 0
          /\ node_voltage(x, components[k].negative_node) # Zero

\* The voltage sources of the netlist in insertion order: the 0-based rank of
\* the one at position k
IsSource(cs, k) == cs[k].kind = "VoltageSource"
source_rank(cs, k) == Cardinality({j \in 1..(k - 1) : IsSource(cs, j)})
source_count(cs) == Cardinality({j \in DOMAIN cs : IsSource(cs, j)})

\* What a voltage source writes at nodal position c of its own row
incidence(c, col) ==
    RSub(IF c.positive_node = col + 1 THEN One ELSE Zero,
         IF c.negative_node = col + 1 THEN One ELSE Zero)

\* C8: the i-th voltage source added owns row and column N+i of the system:
\* its equation and its voltage are in that row, its current column is that
\* column, the rows lie in [N, N+M), and its current is read from that slot.
C8_AuxiliarySlotsByInsertionOrder ==
    outcome \in {"Ok", "SingularMatrix"} =>
        LET N == get_num_nodes(components)
            M == source_count(components)
        IN  /\ DOMAIN b = 0..(N + M - 1)
            /\ \A k \in DOMAIN components :
                  IsSource(components, k) =>
                     LET slot == N + source_rank(components, k)
                     IN  /\ slot >= N /\ slot < N + M
                         /\ b[slot] = components[k].voltage
                         /\ \A col \in 0..(N - 1) :
                               /\ a[slot][col] = incidence(components[k], col)
                               /\ a[col][slot] = RNeg(incidence(components[k], col))
                         /\ \A col \in N..(N + M - 1) : a[slot][col] = Zero
                         /\ outcome = "Ok" => components[k].current = x[slot]

\* two voltage sources on different nodes, the second added after another
\* element, solved; the sources carry different currents
C8_Witness ==
    /\ outcome = "Ok"
    /\ \E i, j \in DOMAIN components :
          /\ i < j
          /\ IsSource(components, i) /\ IsSource(components, j)
          /\ components[i].positive_node # components[j].positive_node

Injective(f) == \A i, j \in DOMAIN f : f[i] = f[j] => i = j
Orders(n) == {f \in [1..n -> 1..n] : Injective(f)}

\* C9: stamping the elements of the netlist in any order, each through the
\* view of its own auxiliary slot, assembles the same A and b.
C9_AssemblyOrderIndependent ==
    \A dt \in Steps :
        \A order \in Orders(Len(components)) :
            LET dim == get_num_nodes(components)
                          + SumVariables(components, Len(components))
            IN  stamp_in_order(components, order,
                               [a |-> ZeroA(dim), b |-> ZeroB(dim)], dt)
                    = assemble(components, dt)

\* two elements of different kinds that both write the entry of node 1,
\* one of them with a right-hand side, after a solve has changed their state
C9_Witness ==
    /\ Len(components) = 2
    /\ outcome = "Ok"
    /\ components[1].kind = "Capacitor"
    /\ components[2].kind = "Inductor"
    /\ components[1].positive_node = 1 /\ components[2].positive_node = 1
    /\ components[1].negative_node = 0 /\ components[2].negative_node = 0

Terminals(cs) ==
    {0} \cup {cs[k].positive_node : k \in DOMAIN cs}
        \cup {cs[k].negative_node : k \in DOMAIN cs}

\* C10: get_num_nodes is the largest node id on any terminal of any
\* component, and 0 for the empty netlist.
C10_NumNodesIsLargestTerminal ==
    /\ \A t \in Terminals(components) : t <= get_num_nodes(components)
    /\ get_num_nodes(components) \in Terminals(components)
    /\ components = <<>> => get_num_nodes(components) = 0

\* the largest id is a negative terminal of the first of two components of
\* different kinds
C10_Witness ==
    /\ Len(components) = 2
    /\ components[1].kind # components[2].kind
    /\ components[1].negative_node > components[1].positive_node
    /\ components[1].negative_node > max_node(components[2])
    /\ get_num_nodes(components) = components[1].negative_node

\* ------------------------------------------------------------------------
\* Properties of the views (checked under SpecRead and SpecView)
\* ------------------------------------------------------------------------

\* C4: reading the nodal voltage of node 0 returns exactly 0, whatever the
\* solution vector and the configuration of the view: never None, never an
\* entry of x (the entries drawn are all non-zero).
C4_GroundReadsZero ==
    (read.kind = "get_variable" /\ read.var = NodeVoltage(0)) =>
        read.value = Zero

\* node 0 read through a view over a non-empty vector with nodes
C4_Witness ==
    /\ read.kind = "get_variable"
    /\ read.var = NodeVoltage(0)
    /\ x_view.num_nodes >= 1
    /\ DOMAIN x_view.x # {}

\* Whether an index resolves in a view of N nodes and m auxiliaries, and the
\* physical row or column it then addresses (offset s)
Resolves(idx, N, m) ==
    IF idx.kind \in {"NodalEquation", "NodeVoltage"}
    THEN 1 <= idx.idx /\ idx.idx <= N
    ELSE idx.idx < m

Physical(idx, s) ==
    IF idx.kind \in {"NodalEquation", "NodeVoltage"}
    THEN idx.idx - 1
    ELSE s + idx.idx

OpResolves ==
    /\ op.kind \in {"coefficient_add", "result_add"}
    /\ Resolves(op.eq, ab_view.num_nodes, ab_view.num_variables)
    /\ op.kind = "coefficient_add" =>
          Resolves(op.var, ab_view.num_nodes, ab_view.num_variables)

\* C5: a call with resolving indices adds its value to exactly the entry at
\* row k-1 (nodal k) or s+j (auxiliary j), and likewise the column, on top
\* of what the entry held, and changes nothing else of A or b.
C5_AddsToExactlyTheAddressedEntry ==
    OpResolves =>
        LET row == Physical(op.eq, ab_view.variables_start)
        IN  IF op.kind = "coefficient_add"
            THEN LET col == Physical(op.var, ab_view.variables_start)
                 IN  /\ ab_view.a = [ab_before.a EXCEPT
                                       ![row][col] = RAdd(@, op.value)]
                     /\ ab_view.b = ab_before.b
            ELSE /\ ab_view.b = [ab_before.b EXCEPT ![row] = RAdd(@, op.value)]
                 /\ ab_view.a = ab_before.a

\* a coefficient is added at an auxiliary row of a slice that does not start
\* at 0, onto an entry that already held a value
C5_Witness ==
    /\ OpResolves
    /\ op.kind = "coefficient_add"
    /\ op.eq.kind = "SpecificEquation"
    /\ op.var.kind = "NodeVoltage"
    /\ ab_view.variables_start > 0
    /\ ab_before.a[Physical(op.eq, ab_view.variables_start)]
                  [Physical(op.var, ab_view.variables_start)] # Zero

\* C6: a call with an index that does not resolve leaves A and b unchanged.
C6_UnresolvedCallWritesNothing ==
    (op.kind \in {"coefficient_add", "result_add"} /\ ~OpResolves) =>
        ab_view.a = ab_before.a /\ ab_view.b = ab_before.b

\* a coefficient_add whose equation resolves and whose variable is a node
\* past the node count, on a system that already holds values
C6_Witness ==
    /\ op.kind = "coefficient_add"
    /\ Resolves(op.eq, ab_view.num_nodes, ab_view.num_variables)
    /\ op.var.kind = "NodeVoltage"
    /\ op.var.idx > ab_view.num_nodes
    /\ op.var.idx - 1 \in DOMAIN ab_view.a
    /\ \E r \in DOMAIN ab_before.b : ab_before.b[r] # Zero

\* An auxiliary index of the system that is outside the slice of the view
Foreign(i) ==
    /\ i >= ab_view.num_nodes
    /\ i < ab_view.variables_start
          \/ i >= ab_view.variables_start + ab_view.num_variables

\* C7: through a view whose slice starts at or after the nodal rows, no
\* sequence of calls changes an entry of A in an auxiliary row or column
\* outside the slice, nor an entry of b in such a row (all start at zero).
C7_ConfinedToOwnSlice ==
    ab_view.variables_start >= ab_view.num_nodes =>
        /\ \A r, c \in DOMAIN ab_view.a :
              (Foreign(r) \/ Foreign(c)) => ab_view.a[r][c] = Zero
        /\ \A r \in DOMAIN ab_view.b : Foreign(r) => ab_view.b[r] = Zero

\* the system has an auxiliary row outside the slice, and the view wrote
\* both into its own auxiliary row of A and of b
C7_Witness ==
    /\ ab_view.variables_start >= ab_view.num_nodes
    /\ ab_view.num_variables >= 1
    /\ \E r \in DOMAIN ab_view.a : Foreign(r)
    /\ ab_view.b[ab_view.variables_start] # Zero
    /\ \E c \in DOMAIN ab_view.a : ab_view.a[ab_view.variables_start][c] # Zero

\* ------------------------------------------------------------------------
\* Failing and trivial solves (checked under Spec)
\* ------------------------------------------------------------------------
Solved == outcome \in {"Ok", "SingularMatrix", "UnwrapNone"}

Shorted(c) == c.kind = "VoltageSource" /\ c.positive_node = c.negative_node

\* C12: a solve of a netlist that holds a voltage source with both terminals
\* on one node ends on the singular matrix, whatever else the netlist holds.
C12_ShortedSourceIsSingular ==
    (Solved /\ \E k \in DOMAIN before : Shorted(before[k])) =>
        outcome = "SingularMatrix"

\* a source shorted on a non-ground node next to an element of another kind
\* on that node, which alone would solve
C12_Witness ==
    /\ outcome = "SingularMatrix"
    /\ \E k, j \in DOMAIN before :
          /\ Shorted(before[k])
          /\ before[k].positive_node # 0
          /\ before[j].kind \in {"Resistor", "Capacitor", "Inductor"}
          /\ before[j].positive_node = before[k].positive_node
          /\ before[j].negative_node = 0
          /\ get_num_nodes(before) = before[k].positive_node

\* C18: a solve of the netlist without components ends without a failure and
\* leaves the netlist without components; the system it solved is empty.
C18_EmptyNetlistSolveIsNoOp ==
    (Solved /\ before = <<>>) =>
        /\ outcome = "Ok"
        /\ components = <<>>
        /\ DOMAIN a = {} /\ DOMAIN b = {} /\ DOMAIN x = {}

\* the empty netlist solved twice
C18_Witness ==
    /\ Solved
    /\ before = <<>>
    /\ components = <<>>
    /\ solves >= 2

\* ------------------------------------------------------------------------
\* The passes of one solve (checked under SpecSteps)
\* ------------------------------------------------------------------------
OnePass == <<"assemble", "invert", "update">>

\* C13: a solve makes one assembly pass, then one inversion, then the update
\* pass, in that order and never a second assembly; when it returns it has
\* made all three, and until a component is added the elements are those
\* of the solve taken as a whole.
C13_OneAssemblyOneSolveThenUpdate ==
    /\ \E n \in 0..3 : passes = SubSeq(OnePass, 1, n)
    /\ pc = "returned" => passes = OnePass
    /\ (pc = "returned" /\ outcome = "Ok") =>
          components = solve(before, last_dt).components

\* a solve of two elements has returned with a solution that is not zero
\* and has changed the state of an element
C13_Witness ==
    /\ pc = "returned"
    /\ outcome = "Ok"
    /\ passes = OnePass
    /\ Len(components) = 2
    /\ components # before
    /\ \E i \in DOMAIN x : x[i] # Zero

\* ------------------------------------------------------------------------
\* Parameters out of range (checked under SpecAnyParameter)
\* ------------------------------------------------------------------------
OutOfRange(c) ==
    /\ c.kind \in {"Resistor", "Capacitor", "Inductor"}
    /\ c.param[1] <= 0

\* C14: a solve of a netlist holding a resistor, capacitor or inductor whose
\* R, C or L is not positive ends as InvalidNetlist, and nothing has been
\* stamped into A or b.
C14_InvalidNetlistReported ==
    (Solved /\ \E k \in DOMAIN before : OutOfRange(before[k])) =>
        /\ outcome = "InvalidNetlist"
        /\ \A r, c \in DOMAIN a : a[r][c] = Zero
        /\ \A r \in DOMAIN b : b[r] = Zero

\* ------------------------------------------------------------------------
\* Circuits stepped through time (checked under SpecCircuits)
\* ------------------------------------------------------------------------
RLe(p, q) == p[1] * q[2] <= q[1] * p[2]

ResistiveCircuits == SourceResistor \cup TwoSourceResistor \cup VoltageDivider

HasSource(cs, k) ==
    \E j \in DOMAIN cs :
        cs[j].kind = "VoltageSource" /\ cs[j].positive_node = k

\* the voltage a source to ground pins its node to
pinned(cs, k) ==
    IF k = 0 THEN Zero
    ELSE (CHOOSE c \in {cs[j] : j \in DOMAIN cs} :
             c.kind = "VoltageSource" /\ c.positive_node = k).voltage

Touches(c, k) ==
    c.kind = "Resistor" /\ (c.positive_node = k \/ c.negative_node = k)

other_node(c, k) == IF c.positive_node = k THEN c.negative_node
                    ELSE c.positive_node

\* The voltage of node k by circuit theory, from the circuit as built alone:
\* a node with a source to ground is at the source's voltage, and a node
\* between resistors whose far ends are pinned is at the conductance-weighted
\* mean of those far ends.
expected_voltage(cs, k) ==
    IF k = 0 \/ HasSource(cs, k) THEN pinned(cs, k)
    ELSE RDiv(SumTo([j \in 1..Len(cs) |->
                       IF Touches(cs[j], k)
                       THEN RDiv(pinned(cs, other_node(cs[j], k)), cs[j].param)
                       ELSE Zero], Len(cs)),
              SumTo([j \in 1..Len(cs) |->
                       IF Touches(cs[j], k) THEN RDiv(One, cs[j].param)
                       ELSE Zero], Len(cs)))

expected_drop(cs, c) ==
    RSub(expected_voltage(cs, c.positive_node),
         expected_voltage(cs, c.negative_node))

\* The current that leaves node k into the resistors of the circuit
delivered(cs, k) ==
    SumTo([j \in 1..Len(cs) |->
             IF ~Touches(cs[j], k) THEN Zero
             ELSE IF cs[j].positive_node = k
                  THEN RDiv(expected_drop(cs, cs[j]), cs[j].param)
                  ELSE RNeg(RDiv(expected_drop(cs, cs[j]), cs[j].param))],
          Len(cs))

total_resistance(cs) ==
    SumTo([j \in 1..Len(cs) |->
             IF cs[j].kind = "Resistor" THEN cs[j].param ELSE Zero], Len(cs))

\* C15: in a circuit of voltage sources to ground and resistors, after a
\* solve every resistor reads the voltage x[p] - x[n] and that voltage over
\* R as its current, every source still reads its own voltage and reads as
\* its current the current it delivers out of its positive terminal (V over
\* the total resistance for a single source), and every value follows from
\* the circuit as built, whatever the step dt was.
C15_ResistiveCircuitReadouts ==
    (outcome = "Ok" /\ built \in ResistiveCircuits) =>
        /\ \A k \in DOMAIN components :
              LET c == components[k] IN
              /\ c.kind = "Resistor" =>
                    /\ get_voltage(c) =
                          RSub(node_voltage(x, c.positive_node),
                               node_voltage(x, c.negative_node))
                    /\ get_voltage(c) = expected_drop(built, built[k])
                    /\ get_current(c) = RDiv(get_voltage(c), c.param)
              /\ c.kind = "VoltageSource" =>
                    /\ get_voltage(c) = built[k].voltage
                    /\ get_current(c) = delivered(built, c.positive_node)
        /\ built \in SourceResistor \cup VoltageDivider =>
              get_current(components[1]) =
                  RDiv(built[1].voltage, total_resistance(built))

\* the 10 V and 5 V sources joined by 2 ohm: +2.5 A and -2.5 A
C15_Witness ==
    /\ outcome = "Ok"
    /\ built = << VoltageSource(1, 0, Rat(10)), Resistor(1, 2, Rat(2)),
                  VoltageSource(2, 0, Rat(5)) >>
    /\ last_dt = <<3, 4>>
    /\ get_current(components[1]) = <<5, 2>>
    /\ get_current(components[3]) = <<-5, 2>>
    /\ get_voltage(components[2]) = Rat(5)

\* C16: a current source I into a capacitor C: every solve(dt) moves the
\* capacitor voltage to v_old + I*dt/C, reads I as the capacitor current and
\* the capacitor voltage as the source voltage, and over all the solves so
\* far the capacitor voltage is v0 + I*(dt1 + dt2 + ...)/C.
C16_CapacitorIntegratesCurrent ==
    (outcome = "Ok" /\ built \in SourceCapacitor) =>
        LET i == built[1].current
            cap == built[2].param
            v0 == built[2].voltage
        IN  /\ get_voltage(components[2]) =
                  RAdd(get_voltage(before[2]), RDiv(RMul(i, last_dt), cap))
            /\ get_current(components[2]) = i
            /\ get_voltage(components[1]) = get_voltage(components[2])
            /\ get_voltage(components[2]) =
                  RAdd(v0, RDiv(RMul(i, elapsed), cap))

\* 1 A into 0.5 F from 0 V: 0.5 V after dt = 0.25, 2 V after another 0.75
C16_Witness ==
    /\ outcome = "Ok"
    /\ built = << CurrentSource(1, 0, Rat(1)),
                  Capacitor(1, 0, <<1, 2>>, Rat(0)) >>
    /\ solves = 2
    /\ last_dt = <<3, 4>>
    /\ get_voltage(before[2]) = <<1, 2>>
    /\ get_voltage(components[2]) = Rat(2)

\* C17: in the series circuit of a source V, a resistor R and a capacitor C
\* every solve(dt) moves the capacitor voltage to (v_C + a*V)/(1 + a) with
\* a = dt/(R*C), reads V - v_C' as the resistor voltage and (V - v_C')/R as
\* the current of all three elements; from 0 <= v_C <= V at the start the
\* capacitor voltage never decreases and never exceeds V.
C17_BackwardEulerChargesTowardsSource ==
    (outcome = "Ok" /\ built \in SeriesRC) =>
        LET v == built[1].voltage
            r == built[2].param
            cap == built[3].param
            alpha == RDiv(last_dt, RMul(r, cap))
            old == get_voltage(before[3])
            new == get_voltage(components[3])
            i == RDiv(RSub(v, new), r)
        IN  /\ new = RDiv(RAdd(old, RMul(alpha, v)), RAdd(One, alpha))
            /\ get_voltage(components[2]) = RSub(v, new)
            /\ get_current(components[1]) = i
            /\ get_current(components[2]) = i
            /\ get_current(components[3]) = i
            /\ (RLe(Zero, built[3].voltage) /\ RLe(built[3].voltage, v)) =>
                  (RLe(old, new) /\ RLe(new, v))

\* three steps from an empty capacitor, still rising and still below V
C17_Witness ==
    /\ outcome = "Ok"
    /\ built \in SeriesRC
    /\ built[3].voltage = Zero
    /\ solves = 3
    /\ get_voltage(before[3]) # Zero
    /\ ~RLe(get_voltage(components[3]), get_voltage(before[3]))
    /\ ~RLe(built[1].voltage, get_voltage(components[3]))

\* ------------------------------------------------------------------------
\* The diode readouts (checked under SpecDiode)
\* ------------------------------------------------------------------------

\* Is*(e^(v/(eta*Vt)) - 1) written out as Is*e^(v/(eta*Vt)) - Is
diode_law(d) ==
    ENum(d.reverse_saturation_current,
         RDiv(d.voltage, RMul(d.ideality_factor, d.thermal_voltage)),
         RNeg(d.reverse_saturation_current))

\* C19: a diode has no auxiliary variable; whatever set_voltage calls came
\* before, a read of its current returns Is*(exp(v/(eta*Vt)) - 1) for the
\* voltage v stored at the read (0 for the v = 0 of a new diode), and a read
\* of its power returns v times that current.
C19_DiodeReadsItsLaw ==
    /\ diode_num_variables(diode) = 0
    /\ diode_read.kind = "get_current" =>
          /\ diode_read.value = diode_law(diode)
          /\ diode.voltage = Zero =>
                diode_read.value = ENum(Zero, Zero, Zero)
    /\ diode_read.kind = "get_power" =>
          diode_read.value = EMul(diode.voltage, diode_law(diode))

\* a current read after set_voltage that is not the current of v = 0
C19_Witness ==
    /\ diode_read.kind = "get_current"
    /\ diode.voltage = Rat(2)
    /\ diode.ideality_factor = Rat(2)
    /\ diode_read.value = [coef |-> diode.reverse_saturation_current,
                           exponent |-> RDiv(One, diode.thermal_voltage),
                           const |-> RNeg(diode.reverse_saturation_current)]

\* ------------------------------------------------------------------------
\* The element stamps (checked under SpecStamp)
\* ------------------------------------------------------------------------

\* value at row r, column c of A if the entry is that of equation E_i and
\* variable V_j of two nodes other than ground, else nothing
at_nodes(i, j, r, c, value) ==
    IF i # 0 /\ j # 0 /\ r = i - 1 /\ c = j - 1 THEN value ELSE Zero

\* C20: a resistor stamp adds g = 1/R to A[E_p, V_p] and A[E_n, V_n] and -g
\* to A[E_p, V_n] and A[E_n, V_p], leaves out the entries of ground, touches
\* nothing else of A and nothing of b, whatever dt and the stored voltage.
C20_ResistorStamp ==
    (op.kind = "stamp" /\ op.element.kind = "Resistor") =>
        LET p == op.element.positive_node
            n == op.element.negative_node
            g == RDiv(One, op.element.param)
        IN  /\ \A r, c \in DOMAIN ab_view.a :
                  ab_view.a[r][c] =
                      RAdd(ab_before.a[r][c],
                           RAdd(RAdd(at_nodes(p, p, r, c, g),
                                     at_nodes(n, n, r, c, g)),
                                RAdd(at_nodes(p, n, r, c, RNeg(g)),
                                     at_nodes(n, p, r, c, RNeg(g)))))
            /\ ab_view.b = ab_before.b

\* a resistor between two nodes, carrying a voltage, stamped into a system
\* that already holds coefficients
C20_Witness ==
    /\ op.kind = "stamp"
    /\ op.element.kind = "Resistor"
    /\ op.element.positive_node = 1
    /\ op.element.negative_node = 2
    /\ op.element.voltage # Zero
    /\ op.dt = Rat(2)
    /\ ab_before.a[0][1] # Zero
    /\ ab_view.a[0][1] # ab_before.a[0][1]
    /\ ab_view.a[0][0] # ab_before.a[0][0]

\* what a two-terminal stamp of weight g adds to row r, column c of A:
\* +g at (E_p, V_p) and (E_n, V_n), -g at (E_p, V_n) and (E_n, V_p)
nodal_quad(p, n, r, c, g) ==
    RAdd(RAdd(at_nodes(p, p, r, c, g), at_nodes(n, n, r, c, g)),
         RAdd(at_nodes(p, n, r, c, RNeg(g)), at_nodes(n, p, r, c, RNeg(g))))

\* value at row r of b if the row is that of equation E_i of a node other
\* than ground, else nothing
at_node(i, r, value) == IF i # 0 /\ r = i - 1 THEN value ELSE Zero

\* what a two-terminal stamp adds to row r of b: +value at E_p, -value at E_n
nodal_pair(p, n, r, value) ==
    RAdd(at_node(p, r, value), at_node(n, r, RNeg(value)))

Stamped(kind) == op.kind = "stamp" /\ op.element.kind = kind

\* C21: a capacitor stamp adds c = C/dt to A[E_p, V_p] and A[E_n, V_n] and
\* -c to A[E_p, V_n] and A[E_n, V_p], adds C*v_prev/dt to b[E_p] and
\* subtracts it from b[E_n] for the voltage v_prev the capacitor holds when
\* it stamps, leaves out the entries of ground and writes nothing else.
C21_CapacitorStamp ==
    Stamped("Capacitor") =>
        LET p == op.element.positive_node
            n == op.element.negative_node
            cdt == RDiv(op.element.param, op.dt)
            history == RDiv(RMul(op.element.param, op.element.voltage), op.dt)
        IN  /\ \A r, c \in DOMAIN ab_view.a :
                  ab_view.a[r][c] =
                      RAdd(ab_before.a[r][c], nodal_quad(p, n, r, c, cdt))
            /\ \A r \in DOMAIN ab_view.b :
                  ab_view.b[r] =
                      RAdd(ab_before.b[r], nodal_pair(p, n, r, history))

\* a capacitor holding 3 V between two nodes, stamped with dt = 2 into a
\* system that already holds coefficients
C21_Witness ==
    /\ Stamped("Capacitor")
    /\ op.element.positive_node = 2
    /\ op.element.negative_node = 1
    /\ op.element.voltage = Rat(3)
    /\ op.dt = Rat(2)
    /\ ab_before.a[1][0] # Zero
    /\ ab_view.a[1][0] # ab_before.a[1][0]
    /\ ab_view.b[1] = RAdd(ab_before.b[1], Rat(3))
    /\ ab_view.b[0] = RSub(ab_before.b[0], Rat(3))

\* C22: an inductor stamp adds l = dt/L to A[E_p, V_p] and A[E_n, V_n] and
\* -l to A[E_p, V_n] and A[E_n, V_p], subtracts the current I_prev the
\* inductor holds when it stamps from b[E_p] and adds it to b[E_n], leaves
\* out the entries of ground, and has no auxiliary variable: nothing else is
\* written.
C22_InductorStamp ==
    Stamped("Inductor") =>
        LET p == op.element.positive_node
            n == op.element.negative_node
            l == RDiv(op.dt, op.element.param)
        IN  /\ num_variables(op.element) = 0
            /\ ab_view.num_variables = 0
            /\ \A r, c \in DOMAIN ab_view.a :
                  ab_view.a[r][c] =
                      RAdd(ab_before.a[r][c], nodal_quad(p, n, r, c, l))
            /\ \A r \in DOMAIN ab_view.b :
                  ab_view.b[r] =
                      RAdd(ab_before.b[r],
                           nodal_pair(p, n, r, RNeg(op.element.current)))

\* an inductor of 2 H carrying 3 A between two nodes, stamped with dt = 1
\* into a system with an auxiliary row that already holds coefficients
C22_Witness ==
    /\ Stamped("Inductor")
    /\ op.element.positive_node = 1
    /\ op.element.negative_node = 2
    /\ op.element.param = Rat(2)
    /\ op.element.current = Rat(3)
    /\ op.dt = Rat(1)
    /\ Cardinality(DOMAIN ab_view.a) > MaxNode
    /\ ab_before.a[MaxNode][0] # Zero
    /\ ab_view.a[0][0] = RAdd(ab_before.a[0][0], <<1, 2>>)
    /\ ab_view.b[0] = RSub(ab_before.b[0], Rat(3))

\* C23: a voltage source stamp, with j the row and column of the source's
\* own auxiliary variable, adds -1 to A[E_p, j], +1 to A[E_n, j], +1 to
\* A[j, V_p], -1 to A[j, V_n] and V to b[j]; the entries of a grounded
\* terminal are left out, b[j] is written all the same, and nothing else is
\* written.
C23_VoltageSourceStamp ==
    Stamped("VoltageSource") =>
        LET p == op.element.positive_node
            n == op.element.negative_node
            j == ab_view.variables_start
        IN  /\ ab_view.num_variables = 1
            /\ j \in DOMAIN ab_view.b
            /\ \A r, c \in DOMAIN ab_view.a :
                  ab_view.a[r][c] =
                      RAdd(ab_before.a[r][c],
                           RAdd(IF c = j THEN nodal_pair(p, n, r, RNeg(One))
                                ELSE Zero,
                                IF r = j THEN nodal_pair(p, n, c, One)
                                ELSE Zero))
            /\ \A r \in DOMAIN ab_view.b :
                  ab_view.b[r] =
                      RAdd(ab_before.b[r],
                           IF r = j THEN op.element.voltage ELSE Zero)

\* a source with its negative terminal grounded, the second source of its
\* system: its slot is the one after the first source's, which stays as it
\* was
C23_Witness ==
    /\ Stamped("VoltageSource")
    /\ op.element.positive_node = 2
    /\ op.element.negative_node = 0
    /\ ab_view.variables_start = MaxNode + 1
    /\ ab_before.b[MaxNode] # Zero
    /\ ab_view.b[MaxNode] = ab_before.b[MaxNode]
    /\ ab_view.b[MaxNode + 1] = op.element.voltage
    /\ ab_view.a[1][MaxNode + 1] = RNeg(One)
    /\ ab_view.a[MaxNode + 1][1] = One

\* C24: a current source stamp adds I_src to b[E_p] and subtracts it from
\* b[E_n], leaving out a grounded terminal; it writes no entry of A and has
\* no auxiliary variable.
C24_CurrentSourceStamp ==
    Stamped("CurrentSource") =>
        LET p == op.element.positive_node
            n == op.element.negative_node
        IN  /\ num_variables(op.element) = 0
            /\ ab_view.num_variables = 0
            /\ ab_view.a = ab_before.a
            /\ \A r \in DOMAIN ab_view.b :
                  ab_view.b[r] =
                      RAdd(ab_before.b[r],
                           nodal_pair(p, n, r, op.element.current))

\* a source of 2 A from ground into node 1, into a system whose A and b
\* already hold the stamp of another element
C24_Witness ==
    /\ Stamped("CurrentSource")
    /\ op.element.positive_node = 1
    /\ op.element.negative_node = 0
    /\ op.element.current = Rat(2)
    /\ ab_before.a[0][0] # Zero
    /\ ab_before.b[0] # Zero
    /\ ab_view.b[0] = RAdd(ab_before.b[0], Rat(2))

\* ------------------------------------------------------------------------
\* The element updates (checked under SpecUpdate)
\* ------------------------------------------------------------------------
Updated(kind) == read.kind = "update" /\ read.element.kind = kind

\* x[p] - x[n] of the solution under the view, ground reading 0
solved_drop(c) ==
    RSub(node_voltage(x_view.x, c.positive_node),
         node_voltage(x_view.x, c.negative_node))

\* C25: a capacitor update leaves the capacitor with the voltage
\* v_new = x[p] - x[n] and with the current C*(v_new - v_prev)/dt, v_prev
\* being the voltage it held before the update: the current is not taken
\* from the voltage already overwritten, which would make it 0.
C25_CapacitorUpdate ==
    Updated("Capacitor") =>
        LET c == read.element
            v_new == solved_drop(c)
        IN  /\ get_voltage(read.updated) = v_new
            /\ get_current(read.updated) =
                  RDiv(RMul(c.param, RSub(v_new, c.voltage)), read.dt)
            /\ v_new # c.voltage => get_current(read.updated) # Zero

\* a capacitor of 2 F holding 3 V, updated with dt = 2 from a solution that
\* puts 3/2 V across it
C25_Witness ==
    /\ Updated("Capacitor")
    /\ read.element.param = Rat(2)
    /\ read.element.voltage = Rat(3)
    /\ read.dt = Rat(2)
    /\ get_voltage(read.updated) = <<3, 2>>
    /\ get_current(read.updated) = <<-3, 2>>

\* ------------------------------------------------------------------------
\* The inductor over successive steps (checked under SpecCircuits)
\* ------------------------------------------------------------------------

\* C26: every solve leaves every inductor with the voltage v = x[p] - x[n]
\* of the solution just found and with the current I_prev + v*dt/L, I_prev
\* being the current it held when the solve began; the current carries over
\* from solve to solve, so an inductor across a source of V volts holds
\* I_0 + V*(dt_1 + dt_2 + ...)/L.
C26_InductorUpdate ==
    outcome = "Ok" =>
        /\ \A k \in DOMAIN components :
              components[k].kind = "Inductor" =>
                 LET c == components[k]
                     v == RSub(node_voltage(x, c.positive_node),
                               node_voltage(x, c.negative_node))
                 IN  /\ get_voltage(c) = v
                     /\ get_current(c) =
                           RAdd(get_current(before[k]),
                                RDiv(RMul(v, last_dt), c.param))
        /\ built \in SourceInductor =>
              /\ get_voltage(components[2]) = built[1].voltage
              /\ get_current(components[2]) =
                    RAdd(built[2].current,
                         RDiv(RMul(built[1].voltage, elapsed), built[2].param))

\* 2 V across 2 H from 1 A, after steps of 1/4, 3/4 and 1: 1 + 2*2/2 = 3 A
C26_Witness ==
    /\ outcome = "Ok"
    /\ built = << VoltageSource(1, 0, Rat(2)),
                  Inductor(1, 0, Rat(2), Rat(1)) >>
    /\ solves = 3
    /\ elapsed = Rat(2)
    /\ get_current(before[2]) # built[2].current
    /\ get_current(components[2]) = Rat(3)

\* ------------------------------------------------------------------------
\* What a solve leaves alone (checked under Spec)
\* ------------------------------------------------------------------------

\* the fields of an element that are given at construction and no update
\* sets: kind, terminals, R, C or L, a voltage source's voltage, a current
\* source's current (a resistor stores no current)
SameParameters(old, new) ==
    /\ new.kind = old.kind
    /\ new.positive_node = old.positive_node
    /\ new.negative_node = old.negative_node
    /\ new.param = old.param
    /\ old.kind = "VoltageSource" => new.voltage = old.voltage
    /\ old.kind \in {"CurrentSource", "Resistor"} => new.current = old.current

\* C27: a solve, successful or not, leaves the netlist with the same
\* elements in the same order and every element with the parameters it had:
\* terminals, resistance, capacitance, inductance, the voltage of a voltage
\* source and the current of a current source; it writes state and readout
\* fields only.
C27_SolveKeepsParameters ==
    Solved =>
        /\ Len(components) = Len(before)
        /\ \A k \in DOMAIN components : SameParameters(before[k], components[k])

\* a second solve that changed the state of a voltage source and of a
\* current source
C27_Witness ==
    /\ outcome = "Ok"
    /\ solves = 2
    /\ \E i, j \in DOMAIN components :
          /\ components[i].kind = "VoltageSource"
          /\ components[j].kind = "CurrentSource"
          /\ components[i].current # Zero
          /\ components[j].voltage # Zero
          /\ components[i].voltage = Rat(3)

\* ------------------------------------------------------------------------
\* The lookups of the update pass (checked under Spec)
\* ------------------------------------------------------------------------

\* C28: no solve ends on an unwrap of None in its update pass: in every
\* successful solve the solution has N + M entries, N being get_num_nodes()
\* and M the number of auxiliary variables, both terminals of every element
\* lie in 0..N, every read an update makes through its view resolves, and
\* the auxiliary variable of every voltage source is an entry of the
\* solution.
C28_UpdateLookupsResolve ==
    /\ outcome # "UnwrapNone"
    /\ outcome = "Ok" =>
          LET n == get_num_nodes(before)
          IN  /\ Cardinality(DOMAIN x) = n + SumVariables(before, Len(before))
              /\ \A k \in DOMAIN before :
                    /\ before[k].positive_node \in 0..n
                    /\ before[k].negative_node \in 0..n
                    /\ unwraps(before[k], x_view_of(before, k, x))
                    /\ before[k].kind = "VoltageSource" =>
                          /\ variables_start(before, k) \in DOMAIN x
                          /\ variables_start(before, k) >= n

\* a successful solve of two voltage sources, one of them on the node of
\* the largest id, named first
C28_Witness ==
    /\ outcome = "Ok"
    /\ Len(before) = 2
    /\ before[1].kind = "VoltageSource"
    /\ before[2].kind = "VoltageSource"
    /\ before[1].positive_node = MaxNode
    /\ before[1].negative_node = 0
    /\ before[2].positive_node < MaxNode
    /\ x[MaxNode - 1] = before[1].voltage
    /\ Cardinality(DOMAIN x) = MaxNode + 2

====
